---- MODULE Spec2Model ----
(***************************************************************************)
(* The products service of server.js: an Express application with one      *)
(* in-memory array `products`, a middleware stack (JSON body parser,       *)
(* logger, GET /, the API-key gate on /api/products, seven routes and the  *)
(* error handler) and one request processed at a time, layer by layer.     *)
(*                                                                         *)
(* JavaScript values are tagged records, so that `typeof` is something the *)
(* validator really computes.  Texts that the code inspects character by   *)
(* character (names, categories, query values) are sequences of one-letter *)
(* strings; ids, keys, methods and messages are only ever compared for     *)
(* equality and are plain strings.                                         *)
(***************************************************************************)
EXTENDS Integers, Sequences, FiniteSets, TLC

VARIABLES
    products,   \* the array `products` (server.js:27), in array order
    uuids,      \* how many ids uuidv4() has handed out so far
    req,        \* the request being processed (method, path, headers, query, raw body)
    body,       \* req.body: Unparsed until bodyParser.json() has set it
    layer,      \* index in Stack of the layer that runs next; 0 = no layer left to run
                \* (the request is over), -1 = no request at all
    stage,      \* inside a route: index of the next callback of that route
    err,        \* the error handed to next(err), NoError when none
    res,        \* the response: how many times it was sent, its status and body
    before,     \* history: `products` as it was when the request arrived
    history,    \* history: per id answered by a 201, what a reader must see for it
                \* and the rank of its 201 among all 201s
    creates     \* history: number of 201 responses so far

vars == <<products, uuids, req, body, layer, stage, err, res, before, history, creates>>

----------------------------------------------------------------------------
(* Bounds of the model *)

\* at most this many products are ever created (so this many uuids are drawn)
MaxCreates == 2
\* page and limit query values are the decimal texts of -MaxNum .. MaxNum
MaxNum == 2

----------------------------------------------------------------------------
(* JavaScript values *)

Undefined == [type |-> "undefined"]
Null == [type |-> "object"]
Str(s) == [type |-> "string", str |-> s]
Num(n) == [type |-> "number", num |-> n]
Bool(b) == [type |-> "boolean", bool |-> b]
\* an array value, as the query parser builds for ?category=a&category=b
Arr(a) == [type |-> "object", items |-> a]

TypeOf(v) == v.type

\* JavaScript truthiness, as used by `if (req.query.category)` and `!nameQuery`
Truthy(v) ==
    CASE v.type = "undefined" -> FALSE
      [] v.type = "string" -> v.str # <<>>
      [] v.type = "number" -> v.num # 0
      [] v.type = "boolean" -> v.bool
      [] OTHER -> "items" \in DOMAIN v

UpperChars == <<"A", "B", "E", "P", "R", "T">>
LowerChars == <<"a", "b", "e", "p", "r", "t">>

LowerChar(c) ==
    IF \E i \in 1..Len(UpperChars) : UpperChars[i] = c
    THEN LowerChars[CHOOSE i \in 1..Len(UpperChars) : UpperChars[i] = c]
    ELSE c

\* String.prototype.toLowerCase
ToLowerCase(s) == [i \in 1..Len(s) |-> LowerChar(s[i])]

\* String.prototype.includes
Includes(hay, needle) ==
    \E i \in 0..(Len(hay) - Len(needle)) : SubSeq(hay, i + 1, i + Len(needle)) = needle

DigitChars == <<"0", "1", "2", "3", "4", "5", "6", "7", "8", "9">>
IsDigit(c) == \E d \in 1..10 : DigitChars[d] = c
DigitValue(c) == (CHOOSE d \in 1..10 : DigitChars[d] = c) - 1

RECURSIVE LeadingDigits(_, _)
\* the value of the longest run of digits at the front of s, started from acc
LeadingDigits(s, acc) ==
    IF s = <<>> \/ ~IsDigit(Head(s)) THEN acc
    ELSE LeadingDigits(Tail(s), 10 * acc + DigitValue(Head(s)))

\* parseInt(v): NaN unless v is a text that starts, after an optional sign,
\* with a digit; what follows the digits is ignored
NaN == [isNaN |-> TRUE, val |-> 0]
ParseInt(v) ==
    IF v.type # "string" THEN NaN
    ELSE LET s == v.str
             neg == s # <<>> /\ Head(s) = "-"
             t == IF neg \/ (s # <<>> /\ Head(s) = "+") THEN Tail(s) ELSE s
         IN IF t = <<>> \/ ~IsDigit(Head(t)) THEN NaN
            ELSE [isNaN |-> FALSE,
                  val |-> IF neg THEN 0 - LeadingDigits(t, 0) ELSE LeadingDigits(t, 0)]

\* `parseInt(x) || dflt`: NaN and 0 are falsy
OrDefault(p, dflt) == IF p.isNaN \/ p.val = 0 THEN dflt ELSE p.val

Max(a, b) == IF a >= b THEN a ELSE b
Min(a, b) == IF a <= b THEN a ELSE b

\* slice with the element at `end` included as well
Slice_EndInclusive(arr, start, end) ==
    LET n == Len(arr)
        k == IF start < 0 THEN Max(n + start, 0) ELSE Min(start, n)
        final == IF end + 1 < 0 THEN Max(n + end + 1, 0) ELSE Min(end + 1, n)
    IN IF k < final THEN SubSeq(arr, k + 1, final) ELSE <<>>

\* Array.prototype.slice(start, end), indices counted from 0, negative ones
\* from the end of the array
Slice(arr, start, end) ==
    LET n == Len(arr)
        k == IF start < 0 THEN Max(n + start, 0) ELSE Min(start, n)
        final == IF end < 0 THEN Max(n + end, 0) ELSE Min(end, n)
    IN IF k < final THEN SubSeq(arr, k + 1, final) ELSE <<>>

----------------------------------------------------------------------------
(* Errors *)

NoError == [name |-> "none"]
NotFoundError(message) == [name |-> "NotFoundError", message |-> message, status |-> 404]
ValidationError(message) == [name |-> "ValidationError", message |-> message, status |-> 400]
\* a TypeError thrown by the runtime: it carries a message and no status
TypeError(message) == [name |-> "TypeError", message |-> message]
\* what bodyParser.json() passes to next() for a body that is not JSON
BodyParseError == [name |-> "SyntaxError", message |-> "Unexpected token in JSON", status |-> 400]

----------------------------------------------------------------------------
(* Products and the validator *)

Fields == {"name", "description", "price", "category", "inStock"}

\* a parsed JSON object: the value of each key the code reads, Undefined when absent
JsonObject(id, name, description, price, category, inStock) ==
    [id |-> id, name |-> name, description |-> description, price |-> price,
     category |-> category, inStock |-> inStock]
EmptyObject == JsonObject(Undefined, Undefined, Undefined, Undefined, Undefined, Undefined)

\* the validator refusing a payload only when all five fields are wrong
ValidProduct_AnyFieldRight(b) ==
    ~ (/\ TypeOf(b.name) # "string"
       /\ TypeOf(b.description) # "string"
       /\ TypeOf(b.price) # "number"
       /\ TypeOf(b.category) # "string"
       /\ TypeOf(b.inStock) # "boolean")

\* the validator with the check of `price` left out
ValidProduct_PriceUnchecked(b) ==
    ~ (\/ TypeOf(b.name) # "string"
       \/ TypeOf(b.description) # "string"
       \/ TypeOf(b.category) # "string"
       \/ TypeOf(b.inStock) # "boolean")

\* the condition of validateProduct under which it calls next() without an error
ValidProduct(b) ==
    ~ (\/ TypeOf(b.name) # "string"
       \/ TypeOf(b.description) # "string"
       \/ TypeOf(b.price) # "number"
       \/ TypeOf(b.category) # "string"
       \/ TypeOf(b.inStock) # "boolean")

\* the object literal with `description` taken from `name`
ProductRecord_DescriptionFromName(id, b) ==
    [id |-> id, name |-> b.name, description |-> b.name, price |-> b.price,
     category |-> b.category, inStock |-> b.inStock]

\* the object literal of the POST and PUT handlers: the given id and the five
\* destructured fields of req.body
ProductRecord(id, b) ==
    [id |-> id, name |-> b.name, description |-> b.description, price |-> b.price,
     category |-> b.category, inStock |-> b.inStock]

\* uuidv4(): the n-th id drawn; the library hands out a fresh one at every call
Uuid(n) == "uuid-" \o ToString(n)

\* products.findIndex((p) => p.id === id), counted from 1; 0 for the code's -1
FindIndex(arr, id) ==
    IF \E i \in 1..Len(arr) : arr[i].id = id
    THEN CHOOSE i \in 1..Len(arr) : arr[i].id = id /\ \A j \in 1..(i - 1) : arr[j].id # id
    ELSE 0

\* splice without its second argument: everything from `index` on is removed
Splice_ToEnd(arr, index) == SubSeq(arr, 1, index - 1)

\* splice one position too far: the element after `index` is removed
Splice_OffByOne(arr, index) == SubSeq(arr, 1, index) \o SubSeq(arr, index + 2, Len(arr))

\* products.splice(index, 1)
Splice(arr, index) == SubSeq(arr, 1, index - 1) \o SubSeq(arr, index + 1, Len(arr))

\* the filter with the query compared as it was typed
FilterByCategory_QueryAsTyped(arr, category) ==
    IF ~Truthy(category) THEN [threw |-> FALSE, items |-> arr]
    ELSE IF category.type # "string" THEN [threw |-> arr # <<>>, items |-> <<>>]
    ELSE LET Same(p) == ToLowerCase(p.category.str) = category.str
         IN [threw |-> FALSE, items |-> SelectSeq(arr, Same)]

\* the filter of the list handler; `threw` when the callback throws a TypeError,
\* which it does on the first product when the category query is not a text
FilterByCategory(arr, category) ==
    IF ~Truthy(category) THEN [threw |-> FALSE, items |-> arr]
    ELSE IF category.type # "string" THEN [threw |-> arr # <<>>, items |-> <<>>]
    ELSE LET Same(p) == ToLowerCase(p.category.str) = ToLowerCase(category.str)
         IN [threw |-> FALSE, items |-> SelectSeq(arr, Same)]

\* the body of the list handler's response
ListPage(arr, query) ==
    LET filtered == FilterByCategory(arr, query.category).items
        page == OrDefault(ParseInt(query.page), 1)
        limit == OrDefault(ParseInt(query.limit), 10)
        startIndex == (page - 1) * limit
        endIndex == page * limit
    IN [kind |-> "page", page |-> page, limit |-> limit, total |-> Len(filtered),
        data |-> Slice(filtered, startIndex, endIndex)]

\* the filter of the search handler
SearchMatches(arr, nameQuery) ==
    LET Hit(p) == Includes(ToLowerCase(p.name.str), ToLowerCase(nameQuery.str))
    IN SelectSeq(arr, Hit)

\* the reduce of the stats handler: category text -> number of products
CategoryCounts(arr) ==
    [c \in {arr[i].category.str : i \in 1..Len(arr)} |->
        Cardinality({i \in 1..Len(arr) : arr[i].category.str = c})]

----------------------------------------------------------------------------
(* Requests *)

HeaderAbsent == [present |-> FALSE]
Header(v) == [present |-> TRUE, value |-> v]

NoBody == [kind |-> "none"]
Malformed == [kind |-> "malformed"]
Json(obj) == [kind |-> "json", json |-> obj]

Query(category, page, limit, name) ==
    [category |-> category, page |-> page, limit |-> limit, name |-> name]
NoQuery == Query(Undefined, Undefined, Undefined, Undefined)

Request(method, path, key, raw, query) ==
    [method |-> method, path |-> path, key |-> key, raw |-> raw, query |-> query]

Methods == {"GET", "POST", "PUT", "DELETE"}

RootPath == <<>>
CollectionPath == <<"api", "products">>
ItemPath(id) == <<"api", "products", id>>

\* the ids a client may put in the path: every uuid the bound lets the server
\* draw, the two words that are also route names, and one id it never draws
PathIds == {Uuid(n) : n \in 1..MaxCreates} \cup {"search", "stats", "nope"}

ApiPaths == {CollectionPath, ItemPath(Uuid(1)), ItemPath("search"), ItemPath("stats"),
             <<"api", "products", Uuid(1), "reviews">>}

Keys == {HeaderAbsent, Header(""), Header("wrongkey"), Header("mysecretapikey")}
GoodKey == Header("mysecretapikey")

\* three valid product payloads
Pen == JsonObject(Undefined, Str(<<"P", "e">>), Str(<<"b">>), Num(1), Str(<<"T">>), Bool(TRUE))
Tape == JsonObject(Undefined, Str(<<"t", "a", "p", "e">>), Str(<<>>), Num(2), Str(<<"t">>), Bool(FALSE))
Blank == JsonObject(Undefined, Str(<<>>), Str(<<"b">>), Num(1), Str(<<"r">>), Bool(TRUE))
ValidBodies == {Pen, Tape, Blank}

\* a valid payload that also carries an id of its own
WithId == [Tape EXCEPT !.id = Str(<<"x">>)]

\* for each field, a value of a wrong type
WrongValue(f) ==
    CASE f = "name" -> Num(1)
      [] f = "description" -> Null
      [] f = "price" -> Str(<<"1">>)
      [] f = "category" -> Bool(TRUE)
      [] f = "inStock" -> Str(<<"t">>)

\* payloads the validator must refuse: one field absent or of a wrong type,
\* two fields wrong, no field at all
InvalidBodies ==
    {[Pen EXCEPT ![f] = Undefined] : f \in Fields}
    \cup {[Pen EXCEPT ![f] = WrongValue(f)] : f \in Fields}
    \cup {[Pen EXCEPT !.name = Undefined, !.price = Null], EmptyObject}

RawBodies == {NoBody, Malformed} \cup {Json(b) : b \in ValidBodies \cup InvalidBodies \cup {WithId}}

\* the decimal text of n, |n| <= 9
NumText(n) == IF n < 0 THEN <<"-", DigitChars[1 - n]>> ELSE <<DigitChars[n + 1]>>

\* values of ?page= and ?limit=: absent, not a number, a number followed by
\* other characters, and the numbers -MaxNum .. MaxNum
NumQueries ==
    {Undefined, Str(<<"x">>), Str(<<"2", "x">>)} \cup {Str(NumText(n)) : n \in (0 - MaxNum)..MaxNum}

\* values of ?category=
CategoryQueries == {Undefined, Str(<<>>), Str(<<"t">>), Str(<<"T">>), Arr(<<"t", "r">>)}

\* values of ?name=
NameQueries == {Undefined, Str(<<>>), Str(<<"P">>), Str(<<"a", "p">>)}

\* the requests a client sends
Requests ==
    \* without the right key: every method on every path under /api/products
    {Request(m, p, k, b, NoQuery) :
        m \in Methods, p \in ApiPaths, k \in Keys \ {GoodKey}, b \in {NoBody, Malformed}}
    \* outside /api/products: GET / and paths no route serves
    \cup {Request(m, p, HeaderAbsent, b, NoQuery) :
        m \in {"GET", "POST"}, p \in {RootPath, <<"health">>}, b \in {NoBody, Malformed}}
    \* with the right key
    \cup {Request("GET", CollectionPath, GoodKey, NoBody, Query(c, p, l, Undefined)) :
        c \in {Undefined, Str(<<"t">>)}, p \in NumQueries, l \in NumQueries}
    \cup {Request("GET", CollectionPath, GoodKey, NoBody, Query(c, Undefined, Undefined, Undefined)) :
        c \in CategoryQueries}
    \cup {Request("GET", ItemPath(id), GoodKey, NoBody, Query(Undefined, Undefined, Undefined, n)) :
        id \in PathIds, n \in NameQueries}
    \cup {Request("POST", CollectionPath, GoodKey, b, NoQuery) : b \in RawBodies}
    \cup {Request("PUT", ItemPath(id), GoodKey, b, NoQuery) :
        id \in PathIds \ {"search", "stats"}, b \in RawBodies}
    \cup {Request("DELETE", ItemPath(id), GoodKey, NoBody, NoQuery) : id \in PathIds}
    \cup {Request(m, p, GoodKey, b, NoQuery) :
        m \in {"GET", "DELETE"}, b \in {NoBody, Malformed},
        p \in {CollectionPath, <<"api", "products", Uuid(1), "reviews">>}}

----------------------------------------------------------------------------
(* The middleware stack, in the order server.js registers it *)

Layer(name, kind, method, path) == [name |-> name, kind |-> kind, method |-> method, path |-> path]

Stack == <<
    Layer("bodyParser", "use", "*", <<>>),
    Layer("logger", "use", "*", <<>>),
    Layer("root", "route", "GET", <<>>),
    Layer("auth", "use", "*", <<"api", "products">>),
    Layer("list", "route", "GET", <<"api", "products">>),
    Layer("getById", "route", "GET", <<"api", "products", ":id">>),
    Layer("create", "route", "POST", <<"api", "products">>),
    Layer("update", "route", "PUT", <<"api", "products", ":id">>),
    Layer("delete", "route", "DELETE", <<"api", "products", ":id">>),
    Layer("search", "route", "GET", <<"api", "products", "search">>),
    Layer("stats", "route", "GET", <<"api", "products", "stats">>),
    Layer("errorHandler", "error", "*", <<>>) >>

\* past the last layer: Express's own final handler
FinalLayer == Len(Stack) + 1

\* app.use(path, ...) serves every path that starts with `path`
PrefixMatches(prefix, path) ==
    Len(prefix) <= Len(path) /\ \A i \in 1..Len(prefix) : prefix[i] = path[i]

\* app.get(path, ...) serves the paths with the same segments, a ":id"
\* segment standing for any one segment
PatternMatches(pattern, path) ==
    Len(pattern) = Len(path)
    /\ \A i \in 1..Len(pattern) : pattern[i] = ":id" \/ pattern[i] = path[i]

\* whether Express runs layer l for request r: the error handler (four
\* parameters) only while an error is being passed on, the others only while
\* none is
LayerMatches(l, r, failing) ==
    CASE l.kind = "use" -> ~failing /\ PrefixMatches(l.path, r.path)
      [] l.kind = "route" -> ~failing /\ l.method = r.method /\ PatternMatches(l.path, r.path)
      [] l.kind = "error" -> failing /\ PrefixMatches(l.path, r.path)

\* next(): the first layer at or after `from` that Express runs for r
NextLayer(from, r, failing) ==
    IF \E i \in from..Len(Stack) : LayerMatches(Stack[i], r, failing)
    THEN CHOOSE i \in from..Len(Stack) :
            /\ LayerMatches(Stack[i], r, failing)
            /\ \A j \in from..(i - 1) : ~LayerMatches(Stack[j], r, failing)
    ELSE FinalLayer

\* the routes with validateProduct registered for POST only
RouteCallbacks_UpdateUnvalidated(name) ==
    IF name = "create" THEN <<"validateProduct", name>> ELSE <<name>>

\* the callbacks of a route, in order
RouteCallbacks(name) ==
    IF name \in {"create", "update"} THEN <<"validateProduct", name>> ELSE <<name>>

\* req.params.id
ParamId(r) == r.path[3]

----------------------------------------------------------------------------
(* Responses *)

Unparsed == [kind |-> "unparsed"]
NoResponse == [sent |-> 0, status |-> 0, body |-> [kind |-> "none"]]

ErrorBody(message) == [kind |-> "error", error |-> message]
ProductBody(p) == [kind |-> "product", product |-> p]
ArrayBody(items) == [kind |-> "array", items |-> items]
StatsBody(counts) == [kind |-> "stats", counts |-> counts]
TextBody(text) == [kind |-> "text", text |-> text]
EmptyBody == [kind |-> "empty"]

\* res.status(s).json(b) / res.send(b): one more response written
Sent(r, status, b) == [sent |-> r.sent + 1, status |-> status, body |-> b]

\* the status of every error taken to be 500
ErrStatus_Always500(e) == 500

\* `err.status || 500` and `err.message || "Internal Server Error"`
ErrStatus(e) == IF "status" \in DOMAIN e /\ e.status # 0 THEN e.status ELSE 500
ErrMessage(e) ==
    IF "message" \in DOMAIN e /\ e.message # "" THEN e.message ELSE "Internal Server Error"

----------------------------------------------------------------------------
(* Initial state: the server has started, nothing was requested yet *)

Init ==
    /\ products = <<>>
    /\ uuids = 0
    /\ req = Request("GET", RootPath, HeaderAbsent, NoBody, NoQuery)
    /\ body = Unparsed
    /\ layer = -1
    /\ stage = 1
    /\ err = NoError
    /\ res = NoResponse
    /\ before = <<>>
    /\ history = <<>>
    /\ creates = 0

Running(name) == layer \in 1..Len(Stack) /\ Stack[layer].name = name

\* next() and next(e)
Continue == layer' = NextLayer(layer + 1, req, FALSE) /\ stage' = 1 /\ UNCHANGED err
Fail(e) == layer' = NextLayer(layer + 1, req, TRUE) /\ stage' = 1 /\ err' = e
\* the callback returns without calling next: no layer runs after it
Stop == layer' = 0 /\ stage' = 1 /\ UNCHANGED err

----------------------------------------------------------------------------
(* A request arrives; one request is processed at a time *)

Receive ==
    /\ layer = -1
    /\ \E r \in Requests :
        /\ (r.method = "POST" /\ r.path = CollectionPath) => uuids < MaxCreates
        /\ req' = r
    /\ body' = Unparsed
    /\ layer' = NextLayer(1, req', FALSE)
    /\ stage' = 1
    /\ err' = NoError
    /\ res' = NoResponse
    /\ before' = products
    /\ UNCHANGED <<products, uuids, history, creates>>

----------------------------------------------------------------------------
(* The layers *)

\* bodyParser.json(): req.body is {} until a JSON body has been parsed into it;
\* a body that is not JSON is passed on as an error with status 400
BodyParser ==
    /\ Running("bodyParser")
    /\ IF req.raw = Malformed
       THEN body' = EmptyObject /\ Fail(BodyParseError)
       ELSE /\ body' = IF req.raw = NoBody THEN EmptyObject ELSE req.raw.json
            /\ Continue
    /\ UNCHANGED <<products, uuids, req, res, before, history, creates>>

Logger ==
    /\ Running("logger")
    /\ Continue
    /\ UNCHANGED <<products, uuids, req, body, res, before, history, creates>>

RootRoute ==
    /\ Running("root")
    /\ res' = Sent(res, 200, TextBody("Hello World"))
    /\ Stop
    /\ UNCHANGED <<products, uuids, req, body, before, history, creates>>

\* `!apiKey || apiKey !== "mysecretapikey"`
KeyRejected(key) == ~key.present \/ key.value = "" \/ key.value # "mysecretapikey"

\* the gate without `return`: next() is called after the 401 was written
AuthMiddleware_NoReturn ==
    /\ Running("auth")
    /\ IF KeyRejected(req.key)
       THEN /\ res' = Sent(res, 401, ErrorBody("Unauthorized: Invalid or missing API key"))
            /\ Continue
       ELSE Continue /\ UNCHANGED res
    /\ UNCHANGED <<products, uuids, req, body, before, history, creates>>

AuthMiddleware ==
    /\ Running("auth")
    /\ IF KeyRejected(req.key)
       THEN /\ res' = Sent(res, 401, ErrorBody("Unauthorized: Invalid or missing API key"))
            /\ Stop
       ELSE Continue /\ UNCHANGED res
    /\ UNCHANGED <<products, uuids, req, body, before, history, creates>>

ValidateProduct ==
    /\ layer \in 1..Len(Stack)
    /\ Stack[layer].kind = "route"
    /\ stage <= Len(RouteCallbacks(Stack[layer].name))
    /\ RouteCallbacks(Stack[layer].name)[stage] = "validateProduct"
    /\ IF ValidProduct(body)
       THEN stage' = stage + 1 /\ UNCHANGED <<layer, err>>
       ELSE Fail(ValidationError("Invalid product data"))
    /\ UNCHANGED <<products, uuids, req, body, res, before, history, creates>>

----------------------------------------------------------------------------
(* The route handlers; a throw inside asyncHandler becomes next(e) *)

\* the list handler with splice(startIndex, endIndex) for slice: the page is
\* taken out of the array it is cut from, which is `products` itself when no
\* category is asked for
ListProducts_SpliceForSlice ==
    /\ IF FilterByCategory(products, req.query.category).threw
       THEN /\ Fail(TypeError("req.query.category.toLowerCase is not a function"))
            /\ UNCHANGED <<res, products>>
       ELSE LET filtered == FilterByCategory(products, req.query.category).items
                page == OrDefault(ParseInt(req.query.page), 1)
                limit == OrDefault(ParseInt(req.query.limit), 10)
                startIndex == Max((page - 1) * limit, 0)
                count == Max(page * limit, 0)
                taken == Slice(filtered, startIndex, startIndex + count)
            IN /\ res' = Sent(res, 200, [kind |-> "page", page |-> page, limit |-> limit,
                                         total |-> Len(filtered) - Len(taken), data |-> taken])
               /\ products' = IF Truthy(req.query.category) THEN products
                              ELSE Slice(products, 0, startIndex)
                                   \o Slice(products, startIndex + count, Len(products))
               /\ Stop
    /\ UNCHANGED <<uuids, history, creates>>

ListProducts ==
    /\ IF FilterByCategory(products, req.query.category).threw
       THEN Fail(TypeError("req.query.category.toLowerCase is not a function")) /\ UNCHANGED res
       ELSE res' = Sent(res, 200, ListPage(products, req.query)) /\ Stop
    /\ UNCHANGED <<products, uuids, history, creates>>

GetProduct ==
    /\ LET i == FindIndex(products, ParamId(req))
       IN IF i = 0
          THEN Fail(NotFoundError("Product not found")) /\ UNCHANGED res
          ELSE res' = Sent(res, 200, ProductBody(products[i])) /\ Stop
    /\ UNCHANGED <<products, uuids, history, creates>>

\* the create handler without products.push
CreateProduct_NoPush ==
    /\ LET newProduct == ProductRecord(Uuid(uuids + 1), body)
       IN /\ products' = products
          /\ res' = Sent(res, 201, ProductBody(newProduct))
          /\ history' = (newProduct.id :> [state |-> "created", product |-> newProduct,
                                          bodyId |-> Undefined, seq |-> creates + 1]) @@ history
    /\ uuids' = uuids + 1
    /\ creates' = creates + 1
    /\ Stop

CreateProduct ==
    /\ LET newProduct == ProductRecord(Uuid(uuids + 1), body)
       IN /\ products' = Append(products, newProduct)
          /\ res' = Sent(res, 201, ProductBody(newProduct))
          /\ history' = (newProduct.id :> [state |-> "created", product |-> newProduct,
                                          bodyId |-> Undefined, seq |-> creates + 1]) @@ history
    /\ uuids' = uuids + 1
    /\ creates' = creates + 1
    /\ Stop

\* the update handler removing the record and pushing the new one at the end
UpdateProduct_MovesToEnd ==
    /\ LET productIndex == FindIndex(products, ParamId(req))
       IN IF productIndex = 0
          THEN /\ Fail(NotFoundError("Product not found"))
               /\ UNCHANGED <<products, res, history>>
          ELSE /\ products' = Append(Splice(products, productIndex), ProductRecord(ParamId(req), body))
               /\ res' = Sent(res, 200, ProductBody(ProductRecord(ParamId(req), body)))
               /\ history' =
                    IF ParamId(req) \in DOMAIN history
                    THEN [history EXCEPT ![ParamId(req)] =
                            [state |-> "updated",
                             product |-> [id |-> ParamId(req), name |-> req.raw.json.name,
                                          description |-> req.raw.json.description,
                                          price |-> req.raw.json.price,
                                          category |-> req.raw.json.category,
                                          inStock |-> req.raw.json.inStock],
                             bodyId |-> req.raw.json.id,
                             seq |-> history[ParamId(req)].seq]]
                    ELSE history
               /\ Stop
    /\ UNCHANGED <<uuids, creates>>

UpdateProduct ==
    /\ LET productIndex == FindIndex(products, ParamId(req))
       IN IF productIndex = 0
          THEN /\ Fail(NotFoundError("Product not found"))
               /\ UNCHANGED <<products, res, history>>
          ELSE /\ products' = [products EXCEPT ![productIndex] = ProductRecord(ParamId(req), body)]
               /\ res' = Sent(res, 200, ProductBody(products'[productIndex]))
               /\ history' =
                    IF ParamId(req) \in DOMAIN history
                    THEN [history EXCEPT ![ParamId(req)] =
                            [state |-> "updated",
                             product |-> [id |-> ParamId(req), name |-> req.raw.json.name,
                                          description |-> req.raw.json.description,
                                          price |-> req.raw.json.price,
                                          category |-> req.raw.json.category,
                                          inStock |-> req.raw.json.inStock],
                             bodyId |-> req.raw.json.id,
                             seq |-> history[ParamId(req)].seq]]
                    ELSE history
               /\ Stop
    /\ UNCHANGED <<uuids, creates>>

DeleteProduct ==
    /\ LET productIndex == FindIndex(products, ParamId(req))
       IN IF productIndex = 0
          THEN /\ Fail(NotFoundError("Product not found"))
               /\ UNCHANGED <<products, res, history>>
          ELSE /\ products' = Splice(products, productIndex)
               /\ res' = Sent(res, 204, EmptyBody)
               /\ history' =
                    IF ParamId(req) \in DOMAIN history
                    THEN [history EXCEPT ![ParamId(req)] = [state |-> "deleted", product |-> Undefined, bodyId |-> Undefined,
                             seq |-> history[ParamId(req)].seq]]
                    ELSE history
               /\ Stop
    /\ UNCHANGED <<uuids, creates>>

SearchProducts ==
    /\ IF ~Truthy(req.query.name)
       THEN res' = Sent(res, 400, ErrorBody("Missing required query parameter: name")) /\ Stop
       ELSE res' = Sent(res, 200, ArrayBody(SearchMatches(products, req.query.name))) /\ Stop
    /\ UNCHANGED <<products, uuids, history, creates>>

GetStats ==
    /\ res' = Sent(res, 200, StatsBody(CategoryCounts(products)))
    /\ Stop
    /\ UNCHANGED <<products, uuids, history, creates>>

\* the route that matched runs its handler
RunHandler ==
    /\ layer \in 1..Len(Stack)
    /\ Stack[layer].kind = "route"
    /\ Stack[layer].name # "root"
    /\ stage <= Len(RouteCallbacks(Stack[layer].name))
    /\ RouteCallbacks(Stack[layer].name)[stage] = Stack[layer].name
    /\ CASE Stack[layer].name = "list" -> ListProducts
         [] Stack[layer].name = "getById" -> GetProduct
         [] Stack[layer].name = "create" -> CreateProduct
         [] Stack[layer].name = "update" -> UpdateProduct
         [] Stack[layer].name = "delete" -> DeleteProduct
         [] Stack[layer].name = "search" -> SearchProducts
         [] Stack[layer].name = "stats" -> GetStats
    /\ UNCHANGED <<req, body, before>>

----------------------------------------------------------------------------
(* Errors *)

\* errorHandler(err, req, res, next)
ErrorHandler ==
    /\ Running("errorHandler")
    /\ IF res.sent > 0
       THEN layer' = FinalLayer /\ UNCHANGED res
       ELSE res' = Sent(res, ErrStatus(err), ErrorBody(ErrMessage(err))) /\ layer' = 0
    /\ UNCHANGED <<products, uuids, req, body, stage, err, before, history, creates>>

\* Express's final handler: no layer answered (404), or the error handler
\* forwarded an error after the response was sent (nothing more is written)
FinalHandler ==
    /\ layer = FinalLayer
    /\ IF res.sent > 0
       THEN UNCHANGED res
       ELSE res' = Sent(res, IF err = NoError THEN 404 ELSE ErrStatus(err), TextBody("Cannot serve"))
    /\ layer' = 0
    /\ UNCHANGED <<products, uuids, req, body, stage, err, before, history, creates>>

\* the response has been written out and the connection is served: the
\* server waits for the next request
Idle ==
    /\ layer = 0
    /\ layer' = -1
    /\ req' = Request("GET", RootPath, HeaderAbsent, NoBody, NoQuery)
    /\ body' = Unparsed
    /\ stage' = 1
    /\ err' = NoError
    /\ res' = NoResponse
    /\ before' = products
    /\ UNCHANGED <<products, uuids, history, creates>>

Next ==
    \/ Receive
    \/ Idle
    \/ BodyParser
    \/ Logger
    \/ RootRoute
    \/ AuthMiddleware
    \/ ValidateProduct
    \/ RunHandler
    \/ ErrorHandler
    \/ FinalHandler

Spec == Init /\ [][Next]_vars

\* the layers of the request being processed
Pipeline ==
    \/ BodyParser
    \/ Logger
    \/ RootRoute
    \/ AuthMiddleware
    \/ ValidateProduct
    \/ RunHandler
    \/ ErrorHandler
    \/ FinalHandler

\* Express calls the layers of a request one after the other without waiting
\* for anything outside the process (the handlers await nothing; the promise
\* of asyncHandler settles in the same turn of the event loop), so a request
\* that has a layer left to run gets it run
FairSpec == Spec /\ WF_vars(Pipeline)

----------------------------------------------------------------------------
(* errorHandler as Express may call it: with any error a layer passed to
   next(err), before or after a response was sent.  The application itself
   only ever passes it errors that carry a message, before anything was sent. *)

ErrorShapes ==
    {NotFoundError("Product not found"),
     ValidationError("Invalid product data"),
     TypeError("req.query.category.toLowerCase is not a function"),
     BodyParseError,
     [name |-> "Error"],
     [name |-> "Error", message |-> ""],
     [name |-> "Error", status |-> 503],
     [name |-> "Error", message |-> "Teapot", status |-> 418]}

InitErrorHandler ==
    /\ products = <<>>
    /\ uuids = 0
    /\ req \in {Request("GET", ItemPath("nope"), GoodKey, NoBody, NoQuery),
                Request("POST", CollectionPath, GoodKey, NoBody, NoQuery)}
    /\ body = EmptyObject
    /\ layer = Len(Stack)
    /\ stage = 1
    /\ err \in ErrorShapes
    /\ res \in {NoResponse, Sent(NoResponse, 200, TextBody("Hello World"))}
    /\ before = <<>>
    /\ history = <<>>
    /\ creates = 0

ErrorHandlerSpec == InitErrorHandler /\ [][Next]_vars

----------------------------------------------------------------------------
(* What the properties speak about *)

\* the request is over: no layer is left to run for it
Done == layer = 0

\* the request carries the configured key in x-api-key
HasRightKey == req.key.present /\ req.key.value = "mysecretapikey"

\* the request addresses /api/products or a path below it
UnderProducts == Len(req.path) >= 2 /\ req.path[1] = "api" /\ req.path[2] = "products"

\* GET, PUT or DELETE /api/products/<id> with the right key and a body the
\* parser accepts (or none)
ItemRequest(method) ==
    /\ req.method = method
    /\ Len(req.path) = 3
    /\ UnderProducts
    /\ HasRightKey
    /\ req.raw # Malformed

\* GET /api/products with the right key, answered 200
ListAnswered ==
    /\ Done
    /\ req.method = "GET"
    /\ req.path = CollectionPath
    /\ HasRightKey
    /\ res.status = 200

\* the payload the request carries, an absent one being the empty object
Payload == IF req.raw.kind = "json" THEN req.raw.json ELSE EmptyObject

ExpectedType(f) ==
    CASE f = "price" -> "number"
      [] f = "inStock" -> "boolean"
      [] OTHER -> "string"

\* all five business fields present and of the right primitive type
WellTyped(b) == \A f \in Fields : b[f].type = ExpectedType(f)

\* the state history records for the id in the path, "unknown" for an id no
\* 201 ever answered
Known(id) == IF id \in DOMAIN history THEN history[id].state ELSE "unknown"

\* two letters that differ in case only
CasePair(c, d) ==
    \E k \in 1..Len(UpperChars) : {c, d} = {UpperChars[k], LowerChars[k]}

\* two texts equal when case is ignored
SameIgnoringCase(a, b) ==
    Len(a) = Len(b) /\ \A i \in 1..Len(a) : a[i] = b[i] \/ CasePair(a[i], b[i])

----------------------------------------------------------------------------
(* C1: every request under /api/products without the right key is answered
   401 and leaves the store as it was. *)
C1_UnauthorizedIs401 ==
    (Done /\ UnderProducts /\ ~HasRightKey) => (res.status = 401 /\ products = before)

(* C2: GET /api/products/search with the right key is answered by the search
   handler: 200 and the products whose name contains the non-empty query,
   case ignored; 400 "Missing required query parameter: name" without name. *)
C2_SearchIsServed ==
    (Done /\ ItemRequest("GET") /\ ParamId(req) = "search") =>
        /\ (req.query.name.type = "string" /\ req.query.name.str # <<>>) =>
              /\ res.status = 200
              /\ res.body = ArrayBody(SearchMatches(products, req.query.name))
        /\ req.query.name = Undefined =>
              /\ res.status = 400
              /\ res.body = ErrorBody("Missing required query parameter: name")

(* C3: GET /api/products/stats with the right key is answered 200 with the
   number of products per exact category text, the counts summing to the
   number of products. *)
RECURSIVE SumOver(_, _)
SumOver(f, keys) ==
    IF keys = {} THEN 0
    ELSE LET k == CHOOSE x \in keys : TRUE IN f[k] + SumOver(f, keys \ {k})

C3_StatsIsServed ==
    (Done /\ ItemRequest("GET") /\ ParamId(req) = "stats") =>
        /\ res.status = 200
        /\ res.body.kind = "stats"
        /\ DOMAIN res.body.counts = {products[i].category.str : i \in 1..Len(products)}
        /\ \A c \in DOMAIN res.body.counts :
              res.body.counts[c] = Cardinality({i \in 1..Len(products) : products[i].category.str = c})
        /\ SumOver(res.body.counts, DOMAIN res.body.counts) = Len(products)

(* C4: every 201 answers a non-empty id that no other 201 answered, and a
   get-by-id for an id that was created and neither updated nor deleted since
   is answered 200 with the record the 201 returned. *)
C4_CreatedIsReadBack ==
    /\ Cardinality(DOMAIN history) = creates
    /\ "" \notin DOMAIN history
    /\ (Done /\ req.method = "POST" /\ res.status = 201) =>
          /\ res.body.product.id \in DOMAIN history
          /\ WellTyped(res.body.product)
    /\ (Done /\ ItemRequest("GET") /\ Known(ParamId(req)) = "created") =>
          /\ res.status = 200
          /\ res.body = ProductBody(history[ParamId(req)].product)

\* a created product is read back after another product was created as well
C4_Witness ==
    /\ Done /\ ItemRequest("GET") /\ Known(ParamId(req)) = "created"
    /\ res.status = 200
    /\ creates = 2
    /\ ParamId(req) = Uuid(1)

(* C5: after a 200 update of id X, a get-by-id for X is answered 200 with id X
   and the five fields of the update's payload, whatever id the payload
   carried. *)
C5_UpdatedIsReadBack ==
    /\ (Done /\ ItemRequest("PUT") /\ res.status = 200) =>
          /\ Known(ParamId(req)) = "updated"
          /\ res.body = ProductBody(history[ParamId(req)].product)
    /\ (Done /\ ItemRequest("GET") /\ Known(ParamId(req)) = "updated") =>
          /\ res.status = 200
          /\ res.body.product.id = ParamId(req)
          /\ res.body = ProductBody(history[ParamId(req)].product)

\* the product read back was updated with a payload that carried its own id
C5_Witness ==
    /\ Done /\ ItemRequest("GET") /\ Known(ParamId(req)) = "updated"
    /\ res.status = 200
    /\ history[ParamId(req)].bodyId # Undefined
    /\ res.body.product.description = Tape.description

\* the step that ends a get-by-id, update or delete for an id that a 204 had
\* deleted before this step
EndsRequestForDeleted ==
    /\ layer # 0 /\ layer' = 0
    /\ \E m \in {"GET", "PUT", "DELETE"} : ItemRequest(m)
    /\ Known(ParamId(req)) = "deleted"

(* C6, as claimed: once id X was deleted with 204, every later get-by-id,
   update or delete for X is answered 404. *)
C6_DeletedIs404 ==
    [][EndsRequestForDeleted => res'.status = 404]_vars

(* C6, amended: once id X was deleted with 204, every later get-by-id, delete
   and update with a valid payload for X is answered 404, whatever was
   requested in between; an update with an invalid payload is answered 400. *)
C6_DeletedIs404_ValidPayload ==
    [][EndsRequestForDeleted =>
        /\ (req.method = "PUT" /\ ~WellTyped(Payload)) => res'.status = 400
        /\ (req.method # "PUT" \/ WellTyped(Payload)) =>
              /\ res'.status = 404
              /\ res'.body = ErrorBody("Product not found")
              /\ products' = products]_vars

\* a valid update of a deleted id is refused while a later product is stored
C6_Witness ==
    /\ Done /\ ItemRequest("PUT") /\ WellTyped(Payload)
    /\ ParamId(req) = Uuid(1)
    /\ Known(ParamId(req)) = "deleted"
    /\ res.status = 404
    /\ Len(products) = 1 /\ products[1].id = Uuid(2)

(* C7, as claimed: the data of every list response has at most `limit`
   elements, whatever page and limit parse to. *)
C7_DataWithinLimit ==
    ListAnswered => Len(res.body.data) <= res.body.limit

(* C7, amended: the data of every list response has at most `limit` elements
   whatever page parses to, provided limit does not parse to a negative
   number (the limit reported is then 1 or more). *)
C7_DataWithinPositiveLimit ==
    (ListAnswered /\ res.body.limit >= 1) => Len(res.body.data) <= res.body.limit

\* a negative page with a positive limit that returns a full page
C7_Witness ==
    /\ ListAnswered
    /\ res.body.page < 0
    /\ res.body.limit = 1
    /\ Len(res.body.data) = 1

(* C8: for a store, a category filter (none, or a text; an empty text counts
   as none) and a positive limit, every page reports as total the number of
   products whose category equals the filter with case ignored, and the data
   of pages 1, 2, ... put end to end is the sequence of those products in
   array order, each once.  The second part speaks of the store alone and is
   evaluated between requests, where every store the service reaches occurs. *)
Filters == {Undefined, Str(<<>>), Str(<<"t">>), Str(<<"T">>), Str(<<"R">>), Str(<<"b">>)}

Selected(arr, c) ==
    LET Same(p) == SameIgnoringCase(p.category.str, c.str)
    IN IF c = Undefined \/ c = Str(<<>>) THEN arr ELSE SelectSeq(arr, Same)

RECURSIVE PagesFrom(_, _, _, _, _)
\* the data of pages p, p + 1, ..., last put end to end
PagesFrom(arr, c, limit, p, last) ==
    IF p > last THEN <<>>
    ELSE ListPage(arr, Query(c, Str(NumText(p)), Str(NumText(limit)), Undefined)).data
         \o PagesFrom(arr, c, limit, p + 1, last)

C8_PagesRebuildFiltered ==
    /\ (ListAnswered /\ res.body.limit >= 1 /\ req.query.category \in Filters) =>
          res.body.total = Len(Selected(products, req.query.category))
    /\ layer = -1 => \A c \in Filters : \A limit \in 1..(MaxCreates + 1) :
          /\ \A p \in 1..(MaxCreates + 1) :
                ListPage(products, Query(c, Str(NumText(p)), Str(NumText(limit)), Undefined)).total
                    = Len(Selected(products, c))
          /\ PagesFrom(products, c, limit, 1, MaxCreates + 1) = Selected(products, c)
          /\ \A i, j \in 1..Len(Selected(products, c)) :
                i # j => Selected(products, c)[i] # Selected(products, c)[j]

\* the second page of a filtered list, one product a page, two products match
C8_Witness ==
    /\ ListAnswered
    /\ req.query.category = Str(<<"t">>)
    /\ res.body.page = 2 /\ res.body.limit = 1
    /\ res.body.total = 2
    /\ Len(res.body.data) = 1
    /\ res.body.data[1].category = Str(<<"T">>)

(* C9: an update with an invalid payload is answered 400 "Invalid product
   data" whether or not the id is stored; 404 is answered only when the
   payload is valid and the id is not stored. *)
C9_InvalidUpdateIs400 ==
    (Done /\ ItemRequest("PUT")) =>
        /\ ~WellTyped(Payload) =>
              /\ res.status = 400
              /\ res.body = ErrorBody("Invalid product data")
        /\ res.status = 404 => (WellTyped(Payload) /\ FindIndex(before, ParamId(req)) = 0)
        /\ (WellTyped(Payload) /\ FindIndex(before, ParamId(req)) = 0) => res.status = 404

\* an invalid payload for an id that is not stored, answered 400
C9_Witness ==
    /\ Done /\ ItemRequest("PUT")
    /\ ~WellTyped(Payload)
    /\ FindIndex(before, ParamId(req)) = 0
    /\ Len(before) > 0
    /\ res.status = 400

(* C10: in every state the ids of the stored products are pairwise distinct
   and every stored product has a text name, description and category, a
   number price and a boolean inStock. *)
C10_StoreWellFormed ==
    /\ \A i, j \in 1..Len(products) : i # j => products[i].id # products[j].id
    /\ \A i \in 1..Len(products) : WellTyped(products[i])

\* two products stored, one of them replaced by an update
C10_Witness ==
    /\ Len(products) = 2
    /\ \E i \in 1..2 : Known(products[i].id) = "updated"

(* C11: for a request under /api/products without the right key the 401 is
   produced before the body is parsed and before any route handler runs: when
   such a request is over, the answer is the gate's 401, no parsing error was
   raised and req.body was never parsed. *)
C11_GateBeforeParsing ==
    (Done /\ UnderProducts /\ ~HasRightKey) =>
        /\ res = Sent(NoResponse, 401, ErrorBody("Unauthorized: Invalid or missing API key"))
        /\ err = NoError
        /\ body = Unparsed

\* POST /api/products or PUT /api/products/<id> with the right key and a body
\* the parser accepts (or none)
WriteRequest ==
    /\ HasRightKey
    /\ req.raw # Malformed
    /\ \/ req.method = "POST" /\ req.path = CollectionPath
       \/ ItemRequest("PUT")

(* C12: a create or update whose payload has a business field absent or of a
   wrong type is refused as a whole: 400 "Invalid product data", whichever
   and however many fields are wrong, and the store is left as it was. *)
C12_InvalidPayloadRefused ==
    (Done /\ WriteRequest /\ ~WellTyped(Payload)) =>
        /\ res = Sent(NoResponse, 400, ErrorBody("Invalid product data"))
        /\ products = before

\* a create with two wrong fields is refused while a product is stored
C12_Witness ==
    /\ Done /\ WriteRequest
    /\ req.method = "POST"
    /\ Payload = [Pen EXCEPT !.name = Undefined, !.price = Null]
    /\ Len(products) = 1
    /\ res.status = 400

\* GET /api/products without category, page or limit, answered 200
UnfilteredListAnswered ==
    /\ ListAnswered
    /\ req.query = NoQuery

(* C13: the store keeps creation order under every sequence of requests: the
   stored products are always in the order in which their 201s were answered
   (create puts the record last, update leaves it in place, delete takes one
   out and keeps the others' order), and an unfiltered list returns the
   surviving products in that order. *)
C13_CreationOrderKept ==
    /\ \A i \in 1..Len(products) : products[i].id \in DOMAIN history
    /\ \A i, j \in 1..Len(products) :
          i < j => history[products[i].id].seq < history[products[j].id].seq
    /\ UnfilteredListAnswered =>
          /\ res.body.data = SubSeq(products, 1, Min(Len(products), res.body.limit))
          /\ res.body.total = Len(products)

\* an unfiltered list of two products, the first of which was updated
C13_Witness ==
    /\ UnfilteredListAnswered
    /\ Len(res.body.data) = 2
    /\ Known(res.body.data[1].id) = "updated"
    /\ Known(res.body.data[2].id) = "created"

\* the status and message the claim expects for an error
ExpectedStatus(e) ==
    CASE e.name = "NotFoundError" -> 404
      [] e.name = "ValidationError" -> 400
      [] "status" \in DOMAIN e -> e.status
      [] OTHER -> 500

ExpectedMessage(e) ==
    IF "message" \in DOMAIN e /\ e.message # "" THEN e.message ELSE "Internal Server Error"

(* C14: when an error reaches errorHandler before a response was sent, the
   response gets the error's status (404 for NotFound, 400 for Validation),
   500 when the error carries none, and the body {error: message}, the
   message being "Internal Server Error" when the error has none; when a
   response was already sent the handler writes nothing and forwards the
   error. *)
C14_ErrorsAreTranslated ==
    [][Running("errorHandler") =>
        IF res.sent = 0
        THEN /\ res' = [sent |-> 1, status |-> ExpectedStatus(err),
                        body |-> ErrorBody(ExpectedMessage(err))]
             /\ layer' = 0
        ELSE /\ res' = res
             /\ err' = err
             /\ layer' = FinalLayer]_vars

\* an error without status and message was answered 500 "Internal Server Error"
C14_Witness ==
    /\ Done
    /\ err = [name |-> "Error"]
    /\ res = Sent(NoResponse, 500, ErrorBody("Internal Server Error"))

(* C15: every stored product has a non-empty name: no create or update with
   an empty name is accepted into the store. *)
C15_NamesNonEmpty ==
    \A i \in 1..Len(products) :
        products[i].name.type = "string" /\ products[i].name.str # <<>>

(* C16: every request receives exactly one response: at no time has more than
   one response been written for it, once one is written no further layer
   runs, a request that is over has its response, and every request being
   processed comes to that end (after the gate's 401, a validation failure, a
   NotFound thrown in a handler, or a success alike). *)
C16_ExactlyOneResponse ==
    /\ [](res.sent <= 1)
    /\ [](res.sent = 1 => layer = 0)
    /\ [](layer = 0 => res.sent = 1)
    /\ (layer >= 1) ~> (layer = 0 /\ res.sent = 1)

\* a request answered once through the error path: NotFound thrown by a handler
C16_Witness ==
    /\ Done
    /\ err = NotFoundError("Product not found")
    /\ res.sent = 1
    /\ res.status = 404

\* the records of arr whose id is not `id`, in array order
Others(arr, id) ==
    LET Other(p) == p.id # id IN SelectSeq(arr, Other)

\* the step that ends a request
EndsRequest == layer >= 1 /\ layer' = 0

(* C17: a successful create changes the store only by adding one record, a
   successful delete of id X only by removing the record with id X, and a
   successful update of id X only by replacing the record with id X; in all
   three every record with another id is left identical. *)
C17_WritesTouchOneRecord ==
    [][/\ (EndsRequest /\ req.method = "POST" /\ req.path = CollectionPath /\ res'.status = 201) =>
            /\ Len(products') = Len(products) + 1
            /\ Others(products', res'.body.product.id) = products
            /\ \E i \in 1..Len(products') : products'[i] = res'.body.product
       /\ (EndsRequest /\ ItemRequest("DELETE") /\ res'.status = 204) =>
            /\ Len(products') = Len(products) - 1
            /\ products' = Others(products, ParamId(req))
       /\ (EndsRequest /\ ItemRequest("PUT") /\ res'.status = 200) =>
            /\ Len(products') = Len(products)
            /\ Others(products', ParamId(req)) = Others(products, ParamId(req))
            /\ \E i \in 1..Len(products) :
                  /\ products[i].id = ParamId(req)
                  /\ products'[i] = ProductRecord(ParamId(req), Payload)]_vars

\* the first of two products was deleted and the second is still stored
C17_Witness ==
    /\ Done /\ ItemRequest("DELETE")
    /\ res.status = 204
    /\ Len(before) = 2 /\ before[1].id = ParamId(req)
    /\ products = <<before[2]>>

\* the request was answered as a create, an update or a delete that succeeded
WriteSucceeded ==
    \/ req.method = "POST" /\ req.path = CollectionPath /\ res.status = 201
    \/ ItemRequest("PUT") /\ res.status = 200
    \/ ItemRequest("DELETE") /\ res.status = 204

(* C18: the store is unchanged by every request that is not a successful
   create, update or delete: while a request is processed and when it is over
   the store is as it was when the request arrived, unless the request ended
   as a successful write; so list, get-by-id, GET / and every update or
   delete answered 404 leave it as it was. *)
C18_OnlyWritesChangeStore ==
    /\ layer >= 1 => products = before
    /\ (Done /\ ~WriteSucceeded) => products = before
    /\ (Done /\ res.status = 404) => products = before

\* a delete answered 404 while two products are stored
C18_Witness ==
    /\ Done /\ ItemRequest("DELETE")
    /\ res.status = 404
    /\ Len(products) = 2
    /\ products = before

====
